---------------------------- MODULE Spec2Model ----------------------------
(***************************************************************************)
(* A model of cljsbuild (src/cljsbuild.js): the classpath cache of         *)
(* Maven.getClasspath, the dependency fingerprint of                       *)
(* Maven._hashDepdendencies and the registry lookup of                     *)
(* Config._fetchLatestVersion.                                             *)
(*                                                                         *)
(* Five specifications share the module:                                   *)
(*   Spec         the classpath cache: runs of getClasspath and            *)
(*                installDependencies against one project directory, one   *)
(*                run at a time, with edits of package.json between runs   *)
(*   SpecConcurrent  two getClasspath runs that nothing serializes, over   *)
(*                a fresh or a cached project directory, with edits of    *)
(*                package.json at any time                                *)
(*   SpecHash     the fingerprint as a function of two dependency objects  *)
(*   SpecResolve  one _fetchLatestVersion lookup against both registries   *)
(*   SpecConfig   one Config object: getConfig, initConfig and             *)
(*                updateDependencies with their batch of concurrent        *)
(*                lookups, one process at a time                           *)
(***************************************************************************)
EXTENDS Integers, Sequences, FiniteSets, TLC

VARIABLES
    runtime,    \* the Node.js release line that runs the script
    \* ---- fingerprint (SpecHash)
    depsA,      \* a "dependencies" object, as a list of <<key, version>> in insertion order
    depsB,      \* a second "dependencies" object
    hashA,      \* _hashDepdendencies() over depsA, once computed
    hashB,      \* _hashDepdendencies() over depsB, once computed
    hpc,        \* "build" while the objects are assembled, "hashed" afterwards
    \* ---- the project directory (Spec)
    manifest,   \* package.json: whether it exists and its cljsbuild.dependencies
    hashFile,   \* <tempdir>/classpath.hash
    valueFile,  \* <tempdir>/classpath.value, with the dependencies it was resolved from
    pomFile,    \* <tempdir>/pom.xml, with the dependencies it lists
    \* ---- the runs of the script (Spec), one entry per process
    pc,                     \* the statement the run executes next
    cmd,                    \* "getClasspath" or "install"
    config,                 \* Config._cljsbuild as loaded by the run
    lastDependencyHash,     \* getClasspath's local of that name
    currentDependencyHash,  \* getClasspath's local of that name
    cachedClasspath,        \* getClasspath's local of that name
    result,                 \* what getClasspath returned
    threw,                  \* an exception is propagating out of the try block
    unlinkPending,          \* an fs.unlink request of this run waits in the thread pool
    pre,                    \* observer: the two cache files as the run found them
    obs,                    \* observer: what the run has done so far
    overlapped,             \* observer: a run has started while another was under way
    \* ---- one registry lookup (SpecResolve)
    fpc,            \* "idle", "awaitMaven", "awaitClojars", "done" or "failed"
    fname,          \* the package name, split at "/"
    freleasesOnly,  \* the releasesOnly argument
    queries,        \* the registry queries sent so far, in order
    mavenAnswer,    \* observer: what search.maven.org answered
    clojarsAnswer,  \* observer: what clojars.org answered
    fresult,        \* what the promise of _fetchLatestVersion resolved to
    \* ---- the Config object and the init and update commands (SpecConfig)
    packageJson,    \* package.json with its whole "cljsbuild" section
    registry,       \* what the two registries answer for each package
    cpc,            \* "idle", "run", "awaitBatch", "then", "done" or "exited"
    ccmd,           \* "get", "init" or "update"
    options,        \* the options of initConfig or updateDependencies
    cljsbuild,      \* Config._cljsbuild: null or the loaded configuration
    current,        \* updateDependencies' local of that name
    packageNames,   \* the batch handed to _findPackageVersions
    lookup,         \* the _fetchLatestVersion promises of the batch, by index
    fetched,        \* what the promise of _findPackageVersions resolved to
    report,         \* the table updateDependencies logged
    got,            \* the outcome of the last getConfig call
    exitStatus,     \* the exit code of the process and the message logged with it
    prePackageJson, \* observer: package.json as the command found it
    cobs            \* observer: loads of the configuration, writes of package.json,
                    \* queries sent, the order in
                    \* which the lookups settled, transport failures

hashVars == <<depsA, depsB, hashA, hashB, hpc>>

fileVars == <<manifest, hashFile, valueFile, pomFile>>

runVars == <<pc, cmd, config, lastDependencyHash, currentDependencyHash,
             cachedClasspath, result, threw, unlinkPending, pre, obs, overlapped>>

resolveVars == <<fpc, fname, freleasesOnly, queries, mavenAnswer, clojarsAnswer, fresult>>

configVars == <<packageJson, registry, cpc, ccmd, options, cljsbuild, current,
                packageNames, lookup, fetched, report, got, exitStatus,
                prePackageJson, cobs>>

vars == <<runtime, hashVars, fileVars, runVars, resolveVars, configVars>>

(***************************************************************************)
(* Bounds.                                                                 *)
(***************************************************************************)
MaxKeyLen == 2
MaxVerLen == 2
MaxDeps == 2

\* Code units of the strings in the dependency objects: 1 is "a", 2 is "b".
KeyChars == {1, 2}
VerChars == {1}

(***************************************************************************)
(* The runtime.  The script runs under whatever `node` the environment     *)
(* provides; two library behaviours it relies on differ between release    *)
(* lines:                                                                  *)
(*   Array.prototype.sort   insertion sort for short arrays up to          *)
(*                          Node 10, TimSort from Node 11 on               *)
(*   fs.unlink(path)        with no callback: an asynchronous unlink up    *)
(*                          to Node 9, a TypeError from Node 10 on         *)
(***************************************************************************)
Runtimes == {"node6", "node10", "node12"}

SortIsTimSort(rt) == rt = "node12"

UnlinkThrows(rt) == rt # "node6"

(***************************************************************************)
(* Strings are sequences of code units.                                    *)
(***************************************************************************)
Strings(chars, maxLen) == UNION {[1..n -> chars] : n \in 1..maxLen}

RECURSIVE StrLessFrom(_, _, _)
StrLessFrom(x, y, i) ==
    IF i > Len(y) THEN FALSE
    ELSE IF i > Len(x) THEN TRUE
    ELSE IF x[i] < y[i] THEN TRUE
    ELSE IF x[i] > y[i] THEN FALSE
    ELSE StrLessFrom(x, y, i + 1)

\* x < y on JavaScript strings: lexicographic on code units
StrLess(x, y) == StrLessFrom(x, y, 1)

(***************************************************************************)
(* A dependencies object: <<key, version>> pairs in insertion order, keys  *)
(* unique.                                                                 *)
(***************************************************************************)
HasKey(obj, k) == \E i \in 1..Len(obj) : obj[i][1] = k

\* obj[k] = v: an existing key keeps its place, a new key goes last
SetDep(obj, k, v) ==
    IF HasKey(obj, k)
    THEN [i \in 1..Len(obj) |-> IF obj[i][1] = k THEN <<k, v>> ELSE obj[i]]
    ELSE Append(obj, <<k, v>>)

PairsOf(obj) == {obj[i] : i \in 1..Len(obj)}

(***************************************************************************)
(* _hashDepdendencies: the comparator handed to sort.  Its second test     *)
(* repeats the first with the operands swapped (y > x is x < y), so it     *)
(* answers -1 when x < y and 0 otherwise, never 1.                         *)
(***************************************************************************)
CompareDeps(a, b) ==
    LET x == a[1]
        y == b[1]
    IN  IF StrLess(x, y) THEN -1
        ELSE IF StrLess(x, y) THEN 1
        ELSE 0

(***************************************************************************)
(* Array.prototype.sort before Node 11 (V8's InsertionSort, used for       *)
(* arrays of at most 10 elements): an element moves left past its          *)
(* predecessor only while comparefn(predecessor, element) > 0.             *)
(***************************************************************************)
RECURSIVE InsertInto(_, _, _)
InsertInto(a, j, element) ==
    IF j >= 1 /\ CompareDeps(a[j], element) > 0
    THEN InsertInto([a EXCEPT ![j + 1] = a[j]], j - 1, element)
    ELSE [a EXCEPT ![j + 1] = element]

RECURSIVE InsertionSortFrom(_, _)
InsertionSortFrom(a, i) ==
    IF i > Len(a) THEN a
    ELSE InsertionSortFrom(InsertInto(a, i - 1, a[i]), i + 1)

InsertionSort(a) == InsertionSortFrom(a, 2)

(***************************************************************************)
(* Array.prototype.sort from Node 11 on (V8's TimSort).  An array shorter  *)
(* than 64 elements is one run: CountAndMakeRun finds the leading run      *)
(* (reversing it when strictly descending) and BinaryInsertionSort inserts *)
(* the rest.  Every test is comparefn(later, earlier) < 0.                 *)
(***************************************************************************)
RECURSIVE RunLength(_, _, _, _)
RunLength(a, idx, isDescending, n) ==
    IF idx > Len(a) THEN n
    ELSE LET order == CompareDeps(a[idx], a[idx - 1])
         IN  IF isDescending /\ order >= 0 THEN n
             ELSE IF ~isDescending /\ order < 0 THEN n
             ELSE RunLength(a, idx + 1, isDescending, n + 1)

ReverseRange(a, n) == [i \in 1..Len(a) |-> IF i <= n THEN a[n + 1 - i] ELSE a[i]]

RECURSIVE BinarySearch(_, _, _, _)
BinarySearch(a, pivot, left, right) ==
    IF left >= right THEN left
    ELSE LET mid == left + ((right - left) \div 2)
         IN  IF CompareDeps(pivot, a[mid]) < 0
             THEN BinarySearch(a, pivot, left, mid)
             ELSE BinarySearch(a, pivot, mid + 1, right)

RECURSIVE BinaryInsertionSort(_, _)
BinaryInsertionSort(a, start) ==
    IF start > Len(a) THEN a
    ELSE LET pivot == a[start]
             left == BinarySearch(a, pivot, 1, start)
             moved == [i \in 1..Len(a) |->
                          IF i < left \/ i > start THEN a[i]
                          ELSE IF i = left THEN pivot
                          ELSE a[i - 1]]
         IN  BinaryInsertionSort(moved, start + 1)

TimSort(a) ==
    IF Len(a) < 2 THEN a
    ELSE LET isDescending == CompareDeps(a[2], a[1]) < 0
             n == RunLength(a, 3, isDescending, 2)
             run == IF isDescending THEN ReverseRange(a, n) ELSE a
         IN  BinaryInsertionSort(run, n + 1)

\* dependencyList.sort(comparator) under the runtime rt
SortDeps(a, rt) == IF SortIsTimSort(rt) THEN TimSort(a) ELSE InsertionSort(a)

(***************************************************************************)
(* The string that is hashed: key and version of every pair, in list       *)
(* order, joined by the empty string.                                      *)
(***************************************************************************)
RECURSIVE JoinPairs(_, _)
JoinPairs(list, i) ==
    IF i > Len(list) THEN <<>>
    ELSE list[i][1] \o list[i][2] \o JoinPairs(list, i + 1)

DependencyString(obj, rt) == JoinPairs(SortDeps(obj, rt), 1)

\* SHA-1 in hex, taken as injective: a tag (0 is no code unit of any input)
\* followed by the hashed string.  The digest of any string is non-empty.
Sha1Hex(s) == <<0>> \o s

HashDependencies(obj, rt) == Sha1Hex(DependencyString(obj, rt))

(***************************************************************************)
(* SpecHash: two dependency objects are assembled key by key, as a JSON    *)
(* parse of package.json assembles them, and then fingerprinted.           *)
(***************************************************************************)
NotHashed == <<>>

HAssignA(k, v) ==
    /\ hpc = "build"
    /\ Len(SetDep(depsA, k, v)) <= MaxDeps
    /\ depsA' = SetDep(depsA, k, v)
    /\ UNCHANGED <<depsB, hashA, hashB, hpc, runtime, configVars, fileVars, runVars, resolveVars>>

HAssignB(k, v) ==
    /\ hpc = "build"
    /\ Len(SetDep(depsB, k, v)) <= MaxDeps
    /\ depsB' = SetDep(depsB, k, v)
    /\ UNCHANGED <<depsA, hashA, hashB, hpc, runtime, configVars, fileVars, runVars, resolveVars>>

HHash ==
    /\ hpc = "build"
    /\ hashA' = HashDependencies(depsA, runtime)
    /\ hashB' = HashDependencies(depsB, runtime)
    /\ hpc' = "hashed"
    /\ UNCHANGED <<depsA, depsB, runtime, configVars, fileVars, runVars, resolveVars>>

HashNext ==
    \/ \E k \in Strings(KeyChars, MaxKeyLen), v \in Strings(VerChars, MaxVerLen) : HAssignA(k, v)
    \/ \E k \in Strings(KeyChars, MaxKeyLen), v \in Strings(VerChars, MaxVerLen) : HAssignB(k, v)
    \/ HHash

(***************************************************************************)
(* Version strings and the release pattern.                                *)
(***************************************************************************)
Digits == {"0", "1", "2", "3", "4", "5", "6", "7", "8", "9"}

\* /^[0-9]+\.[0-9]+\.[0-9]+(-[0-9]+)?$/ as an automaton over the characters:
\* state 0 is the start, 5 and 7 accept, -1 rejects
ReleaseRegexStep(st, ch) ==
    CASE st = 0 /\ ch \in Digits -> 1
      [] st = 1 /\ ch \in Digits -> 1
      [] st = 1 /\ ch = "." -> 2
      [] st = 2 /\ ch \in Digits -> 3
      [] st = 3 /\ ch \in Digits -> 3
      [] st = 3 /\ ch = "." -> 4
      [] st = 4 /\ ch \in Digits -> 5
      [] st = 5 /\ ch \in Digits -> 5
      [] st = 5 /\ ch = "-" -> 6
      [] st = 6 /\ ch \in Digits -> 7
      [] st = 7 /\ ch \in Digits -> 7
      [] OTHER -> -1

RECURSIVE ReleaseRegexRun(_, _, _)
ReleaseRegexRun(v, i, st) ==
    IF i > Len(v) THEN st
    ELSE ReleaseRegexRun(v, i + 1, ReleaseRegexStep(st, v[i]))

\* version.match(releaseRegex)
MatchesReleaseRegex(v) == ReleaseRegexRun(v, 1, 0) \in {5, 7}

Ver123 == <<"1", ".", "2", ".", "3">>
Ver123Build4 == <<"1", ".", "2", ".", "3", "-", "4">>
Ver123Alpha == <<"1", ".", "2", ".", "3", "-", "a", "l", "p", "h", "a">>
Ver200Rc1 == <<"2", ".", "0", ".", "0", "-", "r", "c", "1">>

\* the versions the registries know
RegistryVersions == {Ver123, Ver123Build4, Ver123Alpha, Ver200Rc1}

\* undefined, where a version is expected
NoVersion == <<>>

(***************************************************************************)
(* The registries' answers.                                                *)
(***************************************************************************)
MaxDocs == 2
MaxResults == 2

\* package names as name.split('/') yields them
PackageNames == {<<"g", "a">>, <<"w">>}

\* lines 278-279
GroupId(name) == name[1]

ArtifactId(name) == IF Len(name) >= 2 /\ name[2] # "" THEN name[2] ELSE GroupId(name)

\* search.maven.org is asked for g:"<groupId>" AND a:"<artifactId>" and
\* answers with response.docs; of each doc the code reads v
MavenDocs == UNION {[1..n -> RegistryVersions] : n \in 0..MaxDocs}

\* clojars.org is asked for "<groupId> <artifactId>" as a text search and
\* answers with results, which may name other artifacts as well
ClojarsItems ==
    {[group_name |-> c[1], jar_name |-> c[2], version |-> v] :
        c \in {<<"g", "a">>, <<"g", "a2">>, <<"w", "w">>}, v \in RegistryVersions}

ClojarsResults == UNION {[1..n -> ClojarsItems] : n \in 0..MaxResults}

\* list.filter(pred)[0], undefined for an empty list
First(list) == IF Len(list) = 0 THEN NoVersion ELSE list[1]

\* mutant of FindLatestMavenRelease: releasesOnly is not looked at
FindLatestMavenReleaseUnfiltered(docs, releasesOnly) == First(docs)

\* lines 160-169
FindLatestMavenRelease(docs, releasesOnly) ==
    IF releasesOnly
    THEN First(SelectSeq(docs, MatchesReleaseRegex))
    ELSE First(docs)

\* mutant of FindLatestClojarsRelease: the results are not narrowed to the
\* coordinate that was asked for
FindLatestClojarsReleaseAnyArtifact(results, groupId, artifactId, releasesOnly) ==
    LET IsReleaseItem(item) == releasesOnly => MatchesReleaseRegex(item.version)
        release == SelectSeq(results, IsReleaseItem)
    IN  IF Len(release) = 0 THEN NoVersion ELSE release[1].version

\* lines 132-148
FindLatestClojarsRelease(results, groupId, artifactId, releasesOnly) ==
    LET IsReleaseItem(item) == releasesOnly => MatchesReleaseRegex(item.version)
        IsCoordinate(item) == item.group_name = groupId /\ item.jar_name = artifactId
        release == SelectSeq(SelectSeq(results, IsReleaseItem), IsCoordinate)
    IN  IF Len(release) = 0 THEN NoVersion ELSE release[1].version

(***************************************************************************)
(* Config._fetchLatestVersion: one lookup, as a chain of promises.         *)
(***************************************************************************)
NotAnswered == [answered |-> FALSE, list |-> <<>>]

Undefined == [found |-> FALSE, name |-> <<>>, version |-> NoVersion]

ResolveStart ==
    /\ fpc = "idle"
    /\ fname = <<>>
    /\ freleasesOnly = FALSE
    /\ queries = <<>>
    /\ mavenAnswer = NotAnswered
    /\ clojarsAnswer = NotAnswered
    /\ fresult = Undefined

\* lines 277-281: the call sends the query to search.maven.org
FLV_Call(name, releasesOnly) ==
    /\ fpc = "idle"
    /\ fname' = name
    /\ freleasesOnly' = releasesOnly
    /\ queries' = <<[registry |-> "maven", groupId |-> GroupId(name),
                     artifactId |-> ArtifactId(name)]>>
    /\ mavenAnswer' = NotAnswered
    /\ clojarsAnswer' = NotAnswered
    /\ fresult' = Undefined
    /\ fpc' = "awaitMaven"
    /\ UNCHANGED <<runtime, configVars, hashVars, fileVars, runVars>>

\* mutant of FLV_MavenAnswers: clojars.org is asked whatever the first
\* registry answered
FLV_MavenAnswersAlwaysFallsBack(docs) ==
    /\ fpc = "awaitMaven"
    /\ mavenAnswer' = [answered |-> TRUE, list |-> docs]
    /\ queries' = Append(queries,
            [registry |-> "clojars", groupId |-> GroupId(fname),
             artifactId |-> ArtifactId(fname)])
    /\ fpc' = "awaitClojars"
    /\ UNCHANGED <<runtime, configVars, hashVars, fileVars, runVars, fname, freleasesOnly,
                   clojarsAnswer, fresult>>

\* lines 281-286: the answer of search.maven.org settles the lookup when it
\* holds a version; otherwise the query to clojars.org is sent
FLV_MavenAnswers(docs) ==
    /\ fpc = "awaitMaven"
    /\ mavenAnswer' = [answered |-> TRUE, list |-> docs]
    /\ LET version == FindLatestMavenRelease(docs, freleasesOnly)
       IN  IF version # NoVersion
           THEN /\ fresult' = [found |-> TRUE, name |-> fname, version |-> version]
                /\ fpc' = "done"
                /\ UNCHANGED queries
           ELSE /\ queries' = Append(queries,
                        [registry |-> "clojars", groupId |-> GroupId(fname),
                         artifactId |-> ArtifactId(fname)])
                /\ fpc' = "awaitClojars"
                /\ UNCHANGED fresult
    /\ UNCHANGED <<runtime, configVars, hashVars, fileVars, runVars, fname, freleasesOnly, clojarsAnswer>>

\* lines 286-294: the answer of clojars.org settles the lookup, with a
\* version or with undefined ("no version found" is logged)
FLV_ClojarsAnswers(results) ==
    /\ fpc = "awaitClojars"
    /\ clojarsAnswer' = [answered |-> TRUE, list |-> results]
    /\ LET version == FindLatestClojarsRelease(results, GroupId(fname),
                                               ArtifactId(fname), freleasesOnly)
       IN  fresult' = IF version # NoVersion
                      THEN [found |-> TRUE, name |-> fname, version |-> version]
                      ELSE Undefined
    /\ fpc' = "done"
    /\ UNCHANGED <<runtime, configVars, hashVars, fileVars, runVars, fname, freleasesOnly, queries,
                   mavenAnswer>>

\* line 120: the response stream reports an error and the promise is rejected
FLV_TransportError ==
    /\ fpc \in {"awaitMaven", "awaitClojars"}
    /\ fpc' = "failed"
    /\ UNCHANGED <<runtime, configVars, hashVars, fileVars, runVars, fname, freleasesOnly, queries,
                   mavenAnswer, clojarsAnswer, fresult>>

\* the lookup is over; another may be made
FLV_Settled ==
    /\ fpc \in {"done", "failed"}
    /\ fpc' = "idle"
    /\ fname' = <<>>
    /\ freleasesOnly' = FALSE
    /\ queries' = <<>>
    /\ mavenAnswer' = NotAnswered
    /\ clojarsAnswer' = NotAnswered
    /\ fresult' = Undefined
    /\ UNCHANGED <<runtime, configVars, hashVars, fileVars, runVars>>

ResolveNext ==
    \/ \E name \in PackageNames, releasesOnly \in BOOLEAN : FLV_Call(name, releasesOnly)
    \/ \E docs \in MavenDocs : FLV_MavenAnswers(docs)
    \/ \E results \in ClojarsResults : FLV_ClojarsAnswers(results)
    \/ FLV_TransportError
    \/ FLV_Settled

(***************************************************************************)
(* The project directory.                                                  *)
(***************************************************************************)
Procs == {1, 2}

\* The dependency objects package.json may declare: none ({}), "a" and "b"
\* in either order, and two objects whose key+version strings coincide.
ProjectDeps ==
    { <<>>,
      << <<<<1>>, <<1>>>>, <<<<2>>, <<1>>>> >>,
      << <<<<2>>, <<1>>>>, <<<<1>>, <<1>>>> >>,
      << <<<<1, 1>>, <<1>>>> >>,
      << <<<<1>>, <<1, 1>>>> >> }

\* package.json: absent, without cljsbuild.dependencies, or declaring them
Manifests ==
    {[exists |-> FALSE, hasDeps |-> FALSE, dependencies |-> <<>>],
     [exists |-> TRUE, hasDeps |-> FALSE, dependencies |-> <<>>]}
    \cup {[exists |-> TRUE, hasDeps |-> TRUE, dependencies |-> d] : d \in ProjectDeps}

NoHashFile == [exists |-> FALSE, content |-> <<>>]

NoValueFile == [exists |-> FALSE, text |-> "", from |-> <<>>]

NoPomFile == [exists |-> FALSE, dependencies |-> <<>>]

\* readFile: the content, '' when the file does not exist
ReadFile(file) == IF file.exists THEN file.content ELSE <<>>

ReadTextFile(file) == IF file.exists THEN file.text ELSE ""

\* What `mvn dependency:build-classpath` writes for the dependencies of a
\* pom.xml: an empty classpath for no dependencies, else a path list that
\* depends on the state of the repositories.
Classpaths(deps) == IF deps = <<>> THEN {""} ELSE {"cp1", "cp2"}

NoConfig == [hasDeps |-> FALSE, dependencies |-> <<>>]

NoObs == [invoked |-> 0, toolFailed |-> FALSE, wroteHash |-> FALSE,
          wroteValue |-> FALSE, pomCreated |-> FALSE, readHash |-> FALSE,
          descriptorMissing |-> FALSE]

NoPre == [hash |-> NoHashFile, value |-> NoValueFile]

\* no run of the script is in progress
Quiet == \A p \in Procs : pc[p] = "idle"

\* The process of run r is alive: the run has started and has not ended, or
\* it has ended with an unlink still queued.
UnderWay(r) ==
    /\ pc[r] \notin {"idle", "exited"}
    /\ pc[r] \in {"returned", "crashed"} => unlinkPending[r]

\* the user edits package.json between runs
EditManifest(m) ==
    /\ Quiet
    /\ m # manifest
    /\ manifest' = m
    /\ UNCHANGED <<runtime, configVars, hashVars, resolveVars, hashFile, valueFile, pomFile, runVars>>

(***************************************************************************)
(* Maven.getClasspath, statement by statement.                             *)
(***************************************************************************)

\* lines 536-537: getConfig('tempdir') loads package.json into the config;
\* a missing package.json ends the process (logErrorAndExit)
GC_Enter(p) ==
    /\ pc[p] = "idle"
    /\ cmd' = [cmd EXCEPT ![p] = "getClasspath"]
    /\ pre' = [pre EXCEPT ![p] = [hash |-> hashFile, value |-> valueFile]]
    /\ IF manifest.exists
       THEN /\ config' = [config EXCEPT ![p] =
                   [hasDeps |-> manifest.hasDeps, dependencies |-> manifest.dependencies]]
            /\ pc' = [pc EXCEPT ![p] = "readHash"]
       ELSE /\ pc' = [pc EXCEPT ![p] = "exited"]
            /\ UNCHANGED config
    /\ overlapped' = (overlapped \/ \E r \in Procs \ {p} : UnderWay(r))
    /\ UNCHANGED <<runtime, configVars, hashVars, resolveVars, fileVars, lastDependencyHash,
                   currentDependencyHash, cachedClasspath, result, threw,
                   unlinkPending, obs>>

\* line 539
GC_ReadHash(p) ==
    /\ pc[p] = "readHash"
    /\ lastDependencyHash' = [lastDependencyHash EXCEPT ![p] = ReadFile(hashFile)]
    /\ obs' = [obs EXCEPT ![p].readHash = TRUE]
    /\ pc' = [pc EXCEPT ![p] = "hash"]
    /\ UNCHANGED <<runtime, overlapped, configVars, hashVars, resolveVars, fileVars, cmd, config, currentDependencyHash,
                   cachedClasspath, result, threw, unlinkPending, pre>>

\* line 540: _hashDepdendencies; getConfig('dependencies') ends the process
\* when the value is undefined
GC_Hash(p) ==
    /\ pc[p] = "hash"
    /\ IF config[p].hasDeps
       THEN /\ currentDependencyHash' = [currentDependencyHash EXCEPT ![p] =
                   HashDependencies(config[p].dependencies, runtime)]
            /\ pc' = [pc EXCEPT ![p] = "readValue"]
       ELSE /\ pc' = [pc EXCEPT ![p] = "exited"]
            /\ UNCHANGED currentDependencyHash
    /\ UNCHANGED <<runtime, overlapped, configVars, hashVars, resolveVars, fileVars, cmd, config, lastDependencyHash,
                   cachedClasspath, result, threw, unlinkPending, pre, obs>>

\* mutant of CacheHit: any cached value is used, stale or not
CacheHitIgnoresHash(lastHash, currentHash, cached) == cached # ""

\* line 544: the cache is used if it is not stale and the value is truthy
\* mutant of CacheHit: the comparison of the fingerprints is inverted
CacheHitInverted(lastHash, currentHash, cached) == lastHash # currentHash /\ cached # ""

CacheHit(lastHash, currentHash, cached) == lastHash = currentHash /\ cached # ""

\* lines 541-548
GC_ReadValue(p) ==
    /\ pc[p] = "readValue"
    /\ LET cached == ReadTextFile(valueFile)
       IN  /\ cachedClasspath' = [cachedClasspath EXCEPT ![p] = cached]
           /\ IF CacheHit(lastDependencyHash[p], currentDependencyHash[p], cached)
              THEN /\ result' = [result EXCEPT ![p] = cached]
                   /\ pc' = [pc EXCEPT ![p] = "returned"]
              ELSE /\ pc' = [pc EXCEPT ![p] = "createPom"]
                   /\ UNCHANGED result
    /\ UNCHANGED <<runtime, overlapped, configVars, hashVars, resolveVars, fileVars, cmd, config, lastDependencyHash,
                   currentDependencyHash, threw, unlinkPending, pre, obs>>

\* lines 552 and 526: createPomXml writes <tempdir>/pom.xml from the config
CreatePom(p) ==
    /\ pc[p] = "createPom"
    /\ pomFile' = [exists |-> TRUE, dependencies |-> config[p].dependencies]
    /\ obs' = [obs EXCEPT ![p].pomCreated = TRUE]
    /\ pc' = [pc EXCEPT ![p] = "sh"]
    /\ UNCHANGED <<runtime, overlapped, configVars, hashVars, resolveVars, manifest, hashFile, valueFile, cmd, config,
                   lastDependencyHash, currentDependencyHash, cachedClasspath,
                   result, threw, unlinkPending, pre>>

\* mutant of GC_ShSucceeds: mvn resolves what package.json declares now
GC_ShSucceedsFromManifest(p, cp) ==
    /\ pc[p] = "sh"
    /\ cmd[p] = "getClasspath"
    /\ pomFile.exists
    /\ cp \in Classpaths(manifest.dependencies)
    /\ valueFile' = [exists |-> TRUE, text |-> cp, from |-> manifest.dependencies]
    /\ obs' = [obs EXCEPT ![p].invoked = @ + 1, ![p].wroteValue = TRUE]
    /\ pc' = [pc EXCEPT ![p] = "writeHash"]
    /\ UNCHANGED <<runtime, overlapped, configVars, hashVars, resolveVars, manifest, hashFile, pomFile, cmd, config,
                   lastDependencyHash, currentDependencyHash, cachedClasspath,
                   result, threw, unlinkPending, pre>>

\* line 553: mvn resolves the pom's dependencies and writes the classpath
\* to -Dmdep.outputFile, which is the value file itself
GC_ShSucceeds(p, cp) ==
    /\ pc[p] = "sh"
    /\ cmd[p] = "getClasspath"
    /\ pomFile.exists
    /\ cp \in Classpaths(pomFile.dependencies)
    /\ valueFile' = [exists |-> TRUE, text |-> cp, from |-> pomFile.dependencies]
    /\ obs' = [obs EXCEPT ![p].invoked = @ + 1, ![p].wroteValue = TRUE]
    /\ pc' = [pc EXCEPT ![p] = "writeHash"]
    /\ UNCHANGED <<runtime, overlapped, configVars, hashVars, resolveVars, manifest, hashFile, pomFile, cmd, config,
                   lastDependencyHash, currentDependencyHash, cachedClasspath,
                   result, threw, unlinkPending, pre>>

\* lines 553 and 527: mvn exits non-zero (or cannot be started), execSync
\* throws; a failed resolution leaves the output file alone.  Without the
\* pom.xml named by -f mvn can only fail.
ShFails(p) ==
    /\ pc[p] = "sh"
    /\ obs' = [obs EXCEPT ![p].invoked = @ + 1, ![p].toolFailed = TRUE,
                        ![p].descriptorMissing = ~pomFile.exists]
    /\ threw' = [threw EXCEPT ![p] = TRUE]
    /\ pc' = [pc EXCEPT ![p] = "finally"]
    /\ UNCHANGED <<runtime, overlapped, configVars, hashVars, resolveVars, fileVars, cmd, config, lastDependencyHash,
                   currentDependencyHash, cachedClasspath, result, unlinkPending, pre>>

\* mutant of GC_WriteHash: the hash that was read is written back
GC_WriteHashStale(p) ==
    /\ pc[p] = "writeHash"
    /\ hashFile' = [exists |-> TRUE, content |-> lastDependencyHash[p]]
    /\ obs' = [obs EXCEPT ![p].wroteHash = TRUE]
    /\ pc' = [pc EXCEPT ![p] = "readResult"]
    /\ UNCHANGED <<runtime, overlapped, configVars, hashVars, resolveVars, manifest, valueFile, pomFile, cmd, config,
                   lastDependencyHash, currentDependencyHash, cachedClasspath,
                   result, threw, unlinkPending, pre>>

\* line 556
GC_WriteHash(p) ==
    /\ pc[p] = "writeHash"
    /\ hashFile' = [exists |-> TRUE, content |-> currentDependencyHash[p]]
    /\ obs' = [obs EXCEPT ![p].wroteHash = TRUE]
    /\ pc' = [pc EXCEPT ![p] = "readResult"]
    /\ UNCHANGED <<runtime, overlapped, configVars, hashVars, resolveVars, manifest, valueFile, pomFile, cmd, config,
                   lastDependencyHash, currentDependencyHash, cachedClasspath,
                   result, threw, unlinkPending, pre>>

\* mutant of GC_ReadResult: the value read before the recomputation is returned
GC_ReadResultFromLocal(p) ==
    /\ pc[p] = "readResult"
    /\ result' = [result EXCEPT ![p] = cachedClasspath[p]]
    /\ pc' = [pc EXCEPT ![p] = "finally"]
    /\ UNCHANGED <<runtime, overlapped, configVars, hashVars, resolveVars, fileVars, cmd, config, lastDependencyHash,
                   currentDependencyHash, cachedClasspath, threw, unlinkPending,
                   pre, obs>>

\* line 558: readFileSync throws when the value file is not there
GC_ReadResult(p) ==
    /\ pc[p] = "readResult"
    /\ IF valueFile.exists
       THEN /\ result' = [result EXCEPT ![p] = valueFile.text]
            /\ UNCHANGED threw
       ELSE /\ threw' = [threw EXCEPT ![p] = TRUE]
            /\ UNCHANGED result
    /\ pc' = [pc EXCEPT ![p] = "finally"]
    /\ UNCHANGED <<runtime, overlapped, configVars, hashVars, resolveVars, fileVars, cmd, config, lastDependencyHash,
                   currentDependencyHash, cachedClasspath, unlinkPending, pre, obs>>

(***************************************************************************)
(* Maven.installDependencies.                                              *)
(***************************************************************************)

\* lines 525-526 and 500: createPomXml asks the config for the dependencies
\* first; a missing package.json or undefined dependencies end the process
ID_Enter(p) ==
    /\ pc[p] = "idle"
    /\ cmd' = [cmd EXCEPT ![p] = "install"]
    /\ pre' = [pre EXCEPT ![p] = [hash |-> hashFile, value |-> valueFile]]
    /\ IF manifest.exists /\ manifest.hasDeps
       THEN /\ config' = [config EXCEPT ![p] =
                   [hasDeps |-> manifest.hasDeps, dependencies |-> manifest.dependencies]]
            /\ pc' = [pc EXCEPT ![p] = "createPom"]
       ELSE /\ pc' = [pc EXCEPT ![p] = "exited"]
            /\ UNCHANGED config
    /\ overlapped' = (overlapped \/ \E r \in Procs \ {p} : UnderWay(r))
    /\ UNCHANGED <<runtime, configVars, hashVars, resolveVars, fileVars, lastDependencyHash,
                   currentDependencyHash, cachedClasspath, result, threw,
                   unlinkPending, obs>>

\* line 527: mvn install succeeds; it writes to the local repository only
ID_ShSucceeds(p) ==
    /\ pc[p] = "sh"
    /\ cmd[p] = "install"
    /\ pomFile.exists
    /\ obs' = [obs EXCEPT ![p].invoked = @ + 1]
    /\ pc' = [pc EXCEPT ![p] = "finally"]
    /\ UNCHANGED <<runtime, overlapped, configVars, hashVars, resolveVars, fileVars, cmd, config, lastDependencyHash,
                   currentDependencyHash, cachedClasspath, result, threw,
                   unlinkPending, pre>>

(***************************************************************************)
(* The finally blocks and removeFile.                                      *)
(***************************************************************************)

\* lines 55-61: fs.unlink is the asynchronous call and gets no callback.
\* Where that throws, the catch logs and nothing is removed; elsewhere the
\* request is handed to the thread pool and removeFile returns.
RemoveFileQueues(rt) == ~UnlinkThrows(rt)

\* mutant of Finally: the block swallows the exception (a catch, not a finally)
FinallySwallows(p) ==
    /\ pc[p] = "finally"
    /\ unlinkPending' = [unlinkPending EXCEPT ![p] = RemoveFileQueues(runtime)]
    /\ pc' = [pc EXCEPT ![p] = "returned"]
    /\ UNCHANGED <<runtime, overlapped, configVars, hashVars, resolveVars, fileVars, cmd, config, lastDependencyHash,
                   currentDependencyHash, cachedClasspath, result, threw, pre, obs>>

\* lines 559-561 and 528-530: the finally block runs removeFile, then the
\* function returns or the exception goes on to the top level
Finally(p) ==
    /\ pc[p] = "finally"
    /\ unlinkPending' = [unlinkPending EXCEPT ![p] = RemoveFileQueues(runtime)]
    /\ pc' = [pc EXCEPT ![p] = IF threw[p] THEN "crashed" ELSE "returned"]
    /\ UNCHANGED <<runtime, overlapped, configVars, hashVars, resolveVars, fileVars, cmd, config, lastDependencyHash,
                   currentDependencyHash, cachedClasspath, result, threw, pre, obs>>

\* the thread pool carries out the queued unlink of pom.xml
UnlinkCompletes(p) ==
    /\ unlinkPending[p]
    /\ pomFile' = NoPomFile
    /\ unlinkPending' = [unlinkPending EXCEPT ![p] = FALSE]
    /\ UNCHANGED <<runtime, overlapped, configVars, hashVars, resolveVars, manifest, hashFile, valueFile, pc, cmd, config,
                   lastDependencyHash, currentDependencyHash, cachedClasspath,
                   result, threw, pre, obs>>

\* The process ends.  After a return the script goes on to run the compiler
\* and the queued unlink is carried out meanwhile; a process that dies of the
\* uncaught exception may take a queued unlink with it.
Exit(p) ==
    /\ pc[p] \in {"returned", "crashed", "exited"}
    /\ pc[p] = "returned" => ~unlinkPending[p]
    /\ pc' = [pc EXCEPT ![p] = "idle"]
    /\ cmd' = [cmd EXCEPT ![p] = "none"]
    /\ config' = [config EXCEPT ![p] = NoConfig]
    /\ lastDependencyHash' = [lastDependencyHash EXCEPT ![p] = <<>>]
    /\ currentDependencyHash' = [currentDependencyHash EXCEPT ![p] = <<>>]
    /\ cachedClasspath' = [cachedClasspath EXCEPT ![p] = ""]
    /\ result' = [result EXCEPT ![p] = ""]
    /\ threw' = [threw EXCEPT ![p] = FALSE]
    /\ unlinkPending' = [unlinkPending EXCEPT ![p] = FALSE]
    /\ pre' = [pre EXCEPT ![p] = NoPre]
    /\ obs' = [obs EXCEPT ![p] = NoObs]
    /\ UNCHANGED <<runtime, overlapped, configVars, hashVars, resolveVars, fileVars>>

\* the steps of a getClasspath run that is under way
GC_Step(p) ==
    \/ GC_ReadHash(p)
    \/ GC_Hash(p)
    \/ GC_ReadValue(p)
    \/ CreatePom(p)
    \/ \E cp \in {"", "cp1", "cp2"} : GC_ShSucceeds(p, cp)
    \/ ShFails(p)
    \/ GC_WriteHash(p)
    \/ GC_ReadResult(p)
    \/ Finally(p)
    \/ UnlinkCompletes(p)

\* the steps of a run that is under way
Step(p) ==
    \/ GC_Step(p)
    \/ ID_ShSucceeds(p)
    \/ Exit(p)

\* runs are serialized: a run starts only when no other is in progress
Next ==
    \/ \E m \in Manifests : EditManifest(m)
    \/ \E p \in Procs : Quiet /\ GC_Enter(p)
    \/ \E p \in Procs : Quiet /\ ID_Enter(p)
    \/ \E p \in Procs : Step(p)

\* The package.json files of the overlapping runs: without dependencies, and
\* declaring one of two dependency sets.
ConcurrentManifests ==
    {[exists |-> TRUE, hasDeps |-> FALSE, dependencies |-> <<>>],
     [exists |-> TRUE, hasDeps |-> TRUE, dependencies |-> << <<<<1>>, <<1>>>>, <<<<2>>, <<1>>>> >>],
     [exists |-> TRUE, hasDeps |-> TRUE, dependencies |-> << <<<<1, 1>>, <<1>>>> >>]}

\* the user edits package.json while a run is under way
EditManifestDuringRun(m) ==
    /\ ~Quiet
    /\ m # manifest
    /\ manifest' = m
    /\ UNCHANGED <<runtime, configVars, hashVars, resolveVars, hashFile, valueFile, pomFile, runVars>>

\* Two getClasspath runs that nothing serializes: each is a process of its
\* own, started at any time, the script takes no lock, and both use
\* <tempdir>/pom.xml and the two cache files of the project directory.
ConcurrentNext ==
    \/ \E m \in ConcurrentManifests : EditManifest(m)
    \/ \E m \in ConcurrentManifests : EditManifestDuringRun(m)
    \/ \E p \in Procs : GC_Enter(p)
    \/ \E p \in Procs : GC_Step(p)

(***************************************************************************)
(* The Config object.  A configuration value is undefined, a string, a     *)
(* number or the dependencies object.                                      *)
(***************************************************************************)
UndefinedValue == [kind |-> "undefined", text |-> "", deps |-> <<>>]

StringValue(s) == [kind |-> "string", text |-> s, deps |-> <<>>]

NumberValue(s) == [kind |-> "number", text |-> s, deps |-> <<>>]

ObjectValue(d) == [kind |-> "object", text |-> "", deps |-> d]

\* the keys of _getDefaults
ConfigKeys == {"fakeProjectFile", "tempdir", "target", "assetPath", "src", "main",
               "replPort", "replHost", "dependencies"}

\* lines 183-195
GetDefaults ==
    [k \in ConfigKeys |->
        CASE k = "fakeProjectFile" -> StringValue("project.clj")
          [] k = "tempdir" -> StringValue(".cljsbuild")
          [] k = "target" -> StringValue("out/main.js")
          [] k = "assetPath" -> StringValue(".")
          [] k = "src" -> StringValue("src")
          [] k = "main" -> UndefinedValue
          [] k = "replPort" -> NumberValue("9000")
          [] k = "replHost" -> StringValue("localhost")
          [] k = "dependencies" -> UndefinedValue]

\* a "cljsbuild" section that names no key; a key the section does not name
\* reads as undefined
EmptySection == [k \in ConfigKeys |-> UndefinedValue]

\* the section with the given main, src and dependencies, each possibly
\* undefined
Section(main, src, dependencies) ==
    [k \in ConfigKeys |->
        CASE k = "main" -> main
          [] k = "src" -> src
          [] k = "dependencies" -> dependencies
          [] OTHER -> UndefinedValue]

\* the packages the registries are asked about: "g/a", "w" and "c/n"
BatchPackages == {<<"g", "a">>, <<"w">>, <<"c", "n">>}

\* the dependencies objects a project declares, with the versions installed
DeclaredDeps ==
    { <<>>,
      << <<<<"g", "a">>, Ver123>> >>,
      << <<<<"g", "a">>, Ver200Rc1>>, <<<<"w">>, Ver123Build4>> >>,
      << <<<<"w">>, Ver123>>, <<<<"g", "a">>, Ver123Alpha>> >> }

NoPackageJson == [exists |-> FALSE, name |-> "", hasSection |-> FALSE, section |-> EmptySection]

\* package.json: absent, without a "cljsbuild" key, or with a section that
\* names some of main, src and dependencies
PackageJsons ==
    {NoPackageJson,
     [exists |-> TRUE, name |-> "app", hasSection |-> FALSE, section |-> EmptySection]}
    \cup {[exists |-> TRUE, name |-> "app", hasSection |-> TRUE,
           section |-> Section(main, src, dependencies)] :
            main \in {UndefinedValue, StringValue("app/core")},
            src \in {UndefinedValue, StringValue("srcs")},
            dependencies \in {UndefinedValue} \cup {ObjectValue(d) : d \in DeclaredDeps}}

\* What the registries hold for a package: nothing; a release candidate
\* ahead of a release at search.maven.org; a pre-release at search.maven.org
\* and a build release at clojars.org, listed behind another artifact of the
\* same group.
RegistryEntries(name) ==
    {[maven |-> <<>>, clojars |-> <<>>],
     [maven |-> <<Ver200Rc1, Ver123>>, clojars |-> <<>>],
     [maven |-> <<Ver123Alpha>>,
      clojars |-> <<[group_name |-> GroupId(name), jar_name |-> "other", version |-> Ver123],
                    [group_name |-> GroupId(name), jar_name |-> ArtifactId(name),
                     version |-> Ver123Build4]>>]}

Registries == {r \in [BatchPackages -> UNION {RegistryEntries(n) : n \in BatchPackages}] :
                  \A n \in BatchPackages : r[n] \in RegistryEntries(n)}

\* Config._cljsbuild after the constructor (line 180) and once loaded
NullConfig == [loaded |-> FALSE, values |-> EmptySection]

\* lines 224-226: Object.assign({}, defaults, data.cljsbuild)
\* mutant of AssignDefaults: the defaults are assigned last and win
AssignDefaultsLast(defaults, section) ==
    [k \in ConfigKeys |-> IF defaults[k] # UndefinedValue THEN defaults[k] ELSE section[k]]

AssignDefaults(defaults, section) ==
    [k \in ConfigKeys |-> IF section[k] # UndefinedValue THEN section[k] ELSE defaults[k]]

\* lines 213-226: _loadConfig over an existing package.json; a loaded
\* configuration is kept
LoadConfig(cfg, doc) ==
    IF cfg.loaded THEN cfg
    ELSE [loaded |-> TRUE,
          values |-> AssignDefaults(GetDefaults,
                        IF doc.hasSection THEN doc.section ELSE EmptySection)]

\* line 214: _loadConfig goes to package.json unless the configuration is
\* loaded
Loads(cfg) == IF cfg.loaded THEN 0 ELSE 1

\* lines 236-254: the document _updatePackageJson writes.  The property at
\* the end of the address is assigned the value; with the address
\* ['cljsbuild'] the section becomes the value.
UpdatedPackageJson(doc, address, value) ==
    IF address = <<"cljsbuild">>
    THEN [doc EXCEPT !.hasSection = TRUE, !.section = value]
    ELSE [doc EXCEPT !.hasSection = TRUE, !.section[address[2]] = value]

\* mutant of ConfigAfterUpdate: the loaded configuration is not invalidated
ConfigAfterUpdateKept(cfg, doc) == LoadConfig(cfg, doc)

\* lines 256-257: this._cljsbuild = null; this._loadConfig()
ConfigAfterUpdate(cfg, doc) == LoadConfig(NullConfig, doc)

(***************************************************************************)
(* One process and its Config object: getConfig calls (as build, watch and *)
(* the REPL commands make them), or initConfig or updateDependencies with  *)
(* getConfig calls after it.                                               *)
(***************************************************************************)
Options == [releasesOnly : BOOLEAN, cider : BOOLEAN, dryRun : BOOLEAN]

NoOptions == [releasesOnly |-> FALSE, cider |-> FALSE, dryRun |-> FALSE]

NotGot == [key |-> "", returned |-> FALSE, value |-> UndefinedValue]

NotExited == [code |-> -1, message |-> ""]

NotFetched == [resolved |-> FALSE, dependencies |-> <<>>]

NoCobs == [loads |-> 0, writes |-> 0, queries |-> 0, settled |-> <<>>,
           transportFailed |-> FALSE]

\* lines 39-42 with the message of line 204
ConfigMissing == [code |-> 1, message |-> "package.json does not exist"]

\* ... of line 271
ConfigKeyUndefined == [code |-> 1, message |-> "undefined package.json value"]

\* ... of line 328
DependenciesExist == [code |-> 1, message |-> "cljsbuild.dependencies does already exist"]

\* lines 265-275: what getConfig(key) does to a Config whose _cljsbuild is
\* cfg while package.json is doc
GetConfigOutcome(cfg, doc, key) ==
    IF ~cfg.loaded /\ ~doc.exists
    THEN [config |-> cfg, returned |-> FALSE, value |-> UndefinedValue,
          exit |-> ConfigMissing, loads |-> 1]
    ELSE LET loaded == LoadConfig(cfg, doc)
             value == loaded.values[key]
         IN  [config |-> loaded, returned |-> value # UndefinedValue, value |-> value,
              exit |-> IF value = UndefinedValue THEN ConfigKeyUndefined ELSE NotExited,
              loads |-> Loads(cfg)]

\* getConfig(key), called by a command
GetConfig(key) ==
    /\ cpc \in {"idle", "run", "done"}
    /\ LET out == GetConfigOutcome(cljsbuild, packageJson, key)
       IN  /\ cljsbuild' = out.config
           /\ got' = [key |-> key, returned |-> out.returned, value |-> out.value]
           /\ cobs' = [cobs EXCEPT !.loads = @ + out.loads]
           /\ exitStatus' = out.exit
           /\ cpc' = IF ~out.returned THEN "exited"
                     ELSE IF cpc = "idle" THEN "run" ELSE cpc
    /\ ccmd' = IF cpc = "idle" THEN "get" ELSE ccmd
    /\ UNCHANGED <<runtime, hashVars, fileVars, runVars, resolveVars, packageJson,
                   registry, options, current, packageNames, lookup, fetched, report,
                   prePackageJson>>

\* Object.keys of a dependencies object
Keys(obj) == [i \in 1..Len(obj) |-> obj[i][1]]

\* obj[name], undefined when the object has no such key
VersionOf(obj, name) ==
    IF HasKey(obj, name)
    THEN obj[CHOOSE i \in 1..Len(obj) : obj[i][1] = name][2]
    ELSE NoVersion

\* lines 301-303: every package of the batch gets its _fetchLatestVersion
\* promise, and each sends its query to search.maven.org at once
StartLookups(names) ==
    [i \in 1..Len(names) |-> [name |-> names[i], pc |-> "awaitMaven", result |-> Undefined]]

\* lines 331-352: the packages init asks for and those --cider adds; of the
\* five and the two the model keeps "g/a", "w" and "c/n"
DefaultPackages(cider) ==
    IF cider THEN << <<"g", "a">>, <<"w">>, <<"c", "n">> >>
    ELSE << <<"g", "a">>, <<"w">> >>

\* mutant of InitConfig: declared dependencies do not stop init
InitConfigOverwrites(opts) ==
    /\ cpc = "idle"
    /\ ccmd' = "init"
    /\ options' = opts
    /\ prePackageJson' = packageJson
    /\ IF ~packageJson.exists
       THEN /\ cpc' = "exited"
            /\ exitStatus' = ConfigMissing
            /\ UNCHANGED <<packageNames, lookup, cobs>>
       ELSE /\ packageNames' = DefaultPackages(opts.cider)
            /\ lookup' = StartLookups(DefaultPackages(opts.cider))
            /\ cobs' = [cobs EXCEPT !.queries = @ + Len(DefaultPackages(opts.cider))]
            /\ cpc' = "awaitBatch"
            /\ UNCHANGED exitStatus
    /\ UNCHANGED <<runtime, hashVars, fileVars, runVars, resolveVars, packageJson,
                   registry, cljsbuild, current, fetched, report, got>>

\* lines 324-354: initConfig up to the call of _findPackageVersions
InitConfig(opts) ==
    /\ cpc = "idle"
    /\ ccmd' = "init"
    /\ options' = opts
    /\ prePackageJson' = packageJson
    /\ IF ~packageJson.exists
       THEN /\ cpc' = "exited"
            /\ exitStatus' = ConfigMissing
            /\ UNCHANGED <<packageNames, lookup, cobs>>
       ELSE IF packageJson.hasSection
               /\ packageJson.section["dependencies"] # UndefinedValue
       THEN /\ cpc' = "exited"
            /\ exitStatus' = DependenciesExist
            /\ UNCHANGED <<packageNames, lookup, cobs>>
       ELSE /\ packageNames' = DefaultPackages(opts.cider)
            /\ lookup' = StartLookups(DefaultPackages(opts.cider))
            /\ cobs' = [cobs EXCEPT !.queries = @ + Len(DefaultPackages(opts.cider))]
            /\ cpc' = "awaitBatch"
            /\ UNCHANGED exitStatus
    /\ UNCHANGED <<runtime, hashVars, fileVars, runVars, resolveVars, packageJson,
                   registry, cljsbuild, current, fetched, report, got>>

\* lines 377-381: updateDependencies up to the call of _findPackageVersions
UpdateDependencies(opts) ==
    /\ cpc = "idle"
    /\ ccmd' = "update"
    /\ options' = opts
    /\ prePackageJson' = packageJson
    /\ LET out == GetConfigOutcome(cljsbuild, packageJson, "dependencies")
       IN  /\ cljsbuild' = out.config
           /\ got' = [key |-> "dependencies", returned |-> out.returned, value |-> out.value]
           /\ exitStatus' = out.exit
           /\ IF out.returned
              THEN /\ current' = out.value.deps
                   /\ packageNames' = Keys(out.value.deps)
                   /\ lookup' = StartLookups(Keys(out.value.deps))
                   /\ cobs' = [cobs EXCEPT !.loads = @ + out.loads,
                                           !.queries = @ + Len(out.value.deps)]
                   /\ cpc' = "awaitBatch"
              ELSE /\ cpc' = "exited"
                   /\ cobs' = [cobs EXCEPT !.loads = @ + out.loads]
                   /\ UNCHANGED <<current, packageNames, lookup>>
    /\ UNCHANGED <<runtime, hashVars, fileVars, runVars, resolveVars, packageJson,
                   registry, fetched, report>>

(***************************************************************************)
(* _findPackageVersions: the lookups of the batch proceed in any order.    *)
(***************************************************************************)

\* lines 281-286 for lookup i of the batch
B_MavenAnswers(i) ==
    /\ cpc = "awaitBatch"
    /\ i \in 1..Len(lookup)
    /\ lookup[i].pc = "awaitMaven"
    /\ LET name == lookup[i].name
           version == FindLatestMavenRelease(registry[name].maven, options.releasesOnly)
       IN  IF version # NoVersion
           THEN /\ lookup' = [lookup EXCEPT ![i].pc = "done",
                      ![i].result = [found |-> TRUE, name |-> name, version |-> version]]
                /\ cobs' = [cobs EXCEPT !.settled = Append(@, i)]
           ELSE /\ lookup' = [lookup EXCEPT ![i].pc = "awaitClojars"]
                /\ cobs' = [cobs EXCEPT !.queries = @ + 1]
    /\ UNCHANGED <<runtime, hashVars, fileVars, runVars, resolveVars, packageJson,
                   registry, cpc, ccmd, options, cljsbuild, current, packageNames,
                   fetched, report, got, exitStatus, prePackageJson>>

\* lines 286-294 for lookup i of the batch
B_ClojarsAnswers(i) ==
    /\ cpc = "awaitBatch"
    /\ i \in 1..Len(lookup)
    /\ lookup[i].pc = "awaitClojars"
    /\ LET name == lookup[i].name
           version == FindLatestClojarsRelease(registry[name].clojars, GroupId(name),
                                               ArtifactId(name), options.releasesOnly)
       IN  lookup' = [lookup EXCEPT ![i].pc = "done",
               ![i].result = IF version # NoVersion
                             THEN [found |-> TRUE, name |-> name, version |-> version]
                             ELSE Undefined]
    /\ cobs' = [cobs EXCEPT !.settled = Append(@, i)]
    /\ UNCHANGED <<runtime, hashVars, fileVars, runVars, resolveVars, packageJson,
                   registry, cpc, ccmd, options, cljsbuild, current, packageNames,
                   fetched, report, got, exitStatus, prePackageJson>>

\* How the transport fails under httpGetJson (lines 101-123):
\*   "request"    the request emits 'error' (no connection); it has no
\*                listener, so the event is thrown as an uncaught exception
\*   "response"   the response emits 'error'; the promise is rejected,
\*                Promise.all rejects and .catch(logErrorAndExit) runs
\*   "truncated"  the connection ends inside the body; 'end' fires and
\*                JSON.parse throws in the handler, an uncaught exception
TransportFailures == {"request", "response", "truncated"}

\* the exit of the process on a transport failure: process.exit(1) by
\* logErrorAndExit, or Node's exit code 1 for an uncaught exception
TransportExit(kind) == [code |-> 1, message |-> kind]

\* mutant of B_TransportError: the failed lookup resolves to undefined and
\* the batch goes on
B_TransportErrorOmits(i, kind) ==
    /\ cpc = "awaitBatch"
    /\ i \in 1..Len(lookup)
    /\ lookup[i].pc \in {"awaitMaven", "awaitClojars"}
    /\ lookup' = [lookup EXCEPT ![i].pc = "done"]
    /\ cobs' = [cobs EXCEPT !.transportFailed = TRUE]
    /\ UNCHANGED <<runtime, hashVars, fileVars, runVars, resolveVars, packageJson,
                   registry, cpc, ccmd, options, cljsbuild, current, packageNames,
                   fetched, report, got, exitStatus, prePackageJson>>

\* lines 101-123, 367 and 422: a query of lookup i fails in transport; the
\* rejection reaches the catch before any other callback runs
B_TransportError(i, kind) ==
    /\ cpc = "awaitBatch"
    /\ i \in 1..Len(lookup)
    /\ lookup[i].pc \in {"awaitMaven", "awaitClojars"}
    /\ lookup' = [lookup EXCEPT ![i].pc = "failed"]
    /\ cobs' = [cobs EXCEPT !.transportFailed = TRUE]
    /\ cpc' = "exited"
    /\ exitStatus' = TransportExit(kind)
    /\ UNCHANGED <<runtime, hashVars, fileVars, runVars, resolveVars, packageJson,
                   registry, ccmd, options, cljsbuild, current, packageNames,
                   fetched, report, got, prePackageJson>>

\* mutant of CollectDependencies: a lookup that found nothing empties the set
RECURSIVE CollectDependenciesAllOrNothing(_, _, _)
CollectDependenciesAllOrNothing(depsWithVersions, i, dependencies) ==
    IF i > Len(depsWithVersions) THEN dependencies
    ELSE IF ~depsWithVersions[i].found THEN <<>>
    ELSE CollectDependenciesAllOrNothing(depsWithVersions, i + 1,
             SetDep(dependencies, depsWithVersions[i].name, depsWithVersions[i].version))

\* lines 304-312: the results, in the order of the batch, are entered into
\* an object; an undefined result is passed over
RECURSIVE CollectDependencies(_, _, _)
CollectDependencies(depsWithVersions, i, dependencies) ==
    IF i > Len(depsWithVersions) THEN dependencies
    ELSE CollectDependencies(depsWithVersions, i + 1,
             IF depsWithVersions[i].found
             THEN SetDep(dependencies, depsWithVersions[i].name, depsWithVersions[i].version)
             ELSE dependencies)

\* the values Promise.all hands to its then-callback: one per lookup, by index
DepsWithVersions == [i \in 1..Len(lookup) |-> lookup[i].result]

\* mutant of FPV_AllSettled: the batch resolves as soon as one lookup has
\* settled (a race, not Promise.all)
FPV_AnySettled ==
    /\ cpc = "awaitBatch"
    /\ \E i \in 1..Len(lookup) : lookup[i].pc = "done"
    /\ fetched' = [resolved |-> TRUE,
                   dependencies |-> CollectDependencies(DepsWithVersions, 1, <<>>)]
    /\ cpc' = "then"
    /\ UNCHANGED <<runtime, hashVars, fileVars, runVars, resolveVars, packageJson,
                   registry, ccmd, options, cljsbuild, current, packageNames, lookup,
                   report, got, exitStatus, prePackageJson, cobs>>

\* lines 301-313: Promise.all resolves once every lookup has resolved, and
\* the then-callback builds the map of name -> version
FPV_AllSettled ==
    /\ cpc = "awaitBatch"
    /\ \A i \in 1..Len(lookup) : lookup[i].pc = "done"
    /\ fetched' = [resolved |-> TRUE,
                   dependencies |-> CollectDependencies(DepsWithVersions, 1, <<>>)]
    /\ cpc' = "then"
    /\ UNCHANGED <<runtime, hashVars, fileVars, runVars, resolveVars, packageJson,
                   registry, ccmd, options, cljsbuild, current, packageNames, lookup,
                   report, got, exitStatus, prePackageJson, cobs>>

\* lines 236-258: _updatePackageJson(address, value), which ends the
\* then-callback of either command
UpdatePackageJson(address, value) ==
    IF ~packageJson.exists
    THEN /\ cpc' = "exited"
         /\ exitStatus' = ConfigMissing
         /\ UNCHANGED <<packageJson, cljsbuild, cobs>>
    ELSE LET doc == UpdatedPackageJson(packageJson, address, value)
         IN  /\ packageJson' = doc
             /\ cljsbuild' = ConfigAfterUpdate(cljsbuild, doc)
             /\ cobs' = [cobs EXCEPT !.loads = @ + 1, !.writes = @ + 1]
             /\ cpc' = "done"
             /\ UNCHANGED exitStatus

\* lines 354-367: the then-callback of initConfig
IC_Then ==
    /\ cpc = "then"
    /\ ccmd = "init"
    /\ LET packageJsonCljsbuild ==
               Section(StringValue("<add-your-namespace-here>/core"), UndefinedValue,
                       ObjectValue(fetched.dependencies))
       IN  IF options.dryRun
           THEN /\ cpc' = "done"
                /\ UNCHANGED <<packageJson, cljsbuild, cobs, exitStatus>>
           ELSE UpdatePackageJson(<<"cljsbuild">>, packageJsonCljsbuild)
    /\ UNCHANGED <<runtime, hashVars, fileVars, runVars, resolveVars, registry, ccmd,
                   options, current, packageNames, lookup, fetched, report, got,
                   prePackageJson>>

\* mutant of IsUpdated: every fetched version counts as an update
IsUpdatedAnyFetched(fetchedVersion, currentVersion) == fetchedVersion # NoVersion

\* line 387
IsUpdated(fetchedVersion, currentVersion) ==
    fetchedVersion # NoVersion /\ fetchedVersion # currentVersion

\* lines 382-393: the packages with an update, each with its fetched version
Updated(cur, fetchedDeps) ==
    LET Test(d) == IsUpdated(VersionOf(fetchedDeps, d[1]), d[2])
        names == Keys(SelectSeq(cur, Test))
    IN  [i \in 1..Len(names) |-> <<names[i], VersionOf(fetchedDeps, names[i])>>]

\* lines 406-414: the rows of the table: name, current version, fetched version
ReportRows(updated, cur, fetchedDeps) ==
    [i \in 1..Len(updated) |->
        <<updated[i][1], VersionOf(cur, updated[i][1]), VersionOf(fetchedDeps, updated[i][1])>>]

\* Object.assign(target, source) on dependencies objects
RECURSIVE Assign(_, _, _)
Assign(target, source, i) ==
    IF i > Len(source) THEN target
    ELSE Assign(SetDep(target, source[i][1], source[i][2]), source, i + 1)

\* mutant of UD_Then: the dryRun option is not looked at
UD_ThenIgnoresDryRun ==
    /\ cpc = "then"
    /\ ccmd = "update"
    /\ LET updated == Updated(current, fetched.dependencies)
       IN  IF Len(updated) = 0
           THEN /\ cpc' = "done"
                /\ UNCHANGED <<packageJson, cljsbuild, cobs, exitStatus, report>>
           ELSE /\ report' = ReportRows(updated, current, fetched.dependencies)
                /\ UpdatePackageJson(<<"cljsbuild">>,
                       Section(UndefinedValue, UndefinedValue,
                               ObjectValue(Assign(current, updated, 1))))
    /\ UNCHANGED <<runtime, hashVars, fileVars, runVars, resolveVars, registry, ccmd,
                   options, current, packageNames, lookup, fetched, got, prePackageJson>>

\* lines 381-422: the then-callback of updateDependencies
UD_Then ==
    /\ cpc = "then"
    /\ ccmd = "update"
    /\ LET updated == Updated(current, fetched.dependencies)
       IN  IF Len(updated) = 0
           THEN /\ cpc' = "done"
                /\ UNCHANGED <<packageJson, cljsbuild, cobs, exitStatus, report>>
           ELSE /\ report' = ReportRows(updated, current, fetched.dependencies)
                /\ IF options.dryRun
                   THEN /\ cpc' = "done"
                        /\ UNCHANGED <<packageJson, cljsbuild, cobs, exitStatus>>
                   ELSE UpdatePackageJson(<<"cljsbuild">>,
                            Section(UndefinedValue, UndefinedValue,
                                    ObjectValue(Assign(current, updated, 1))))
    /\ UNCHANGED <<runtime, hashVars, fileVars, runVars, resolveVars, registry, ccmd,
                   options, current, packageNames, lookup, fetched, got, prePackageJson>>

\* the process ends: the commands have nothing more to do, or process.exit
\* was called; the Config object goes with it, package.json stays
ProcessEnds ==
    /\ cpc \in {"run", "done", "exited"}
    /\ cpc' = "idle"
    /\ ccmd' = "none"
    /\ options' = NoOptions
    /\ cljsbuild' = NullConfig
    /\ current' = <<>>
    /\ packageNames' = <<>>
    /\ lookup' = <<>>
    /\ fetched' = NotFetched
    /\ report' = <<>>
    /\ got' = NotGot
    /\ exitStatus' = NotExited
    /\ prePackageJson' = NoPackageJson
    /\ cobs' = NoCobs
    /\ UNCHANGED <<runtime, hashVars, fileVars, runVars, resolveVars, packageJson, registry>>

\* a batch holds at most one lookup for each package
BatchIndexes == 1..Cardinality(BatchPackages)

ConfigNext ==
    \/ \E key \in ConfigKeys : GetConfig(key)
    \/ \E opts \in Options : InitConfig(opts)
    \/ \E opts \in Options : UpdateDependencies(opts)
    \/ \E i \in BatchIndexes : B_MavenAnswers(i)
    \/ \E i \in BatchIndexes : B_ClojarsAnswers(i)
    \/ \E i \in BatchIndexes, kind \in TransportFailures : B_TransportError(i, kind)
    \/ FPV_AllSettled
    \/ IC_Then
    \/ UD_Then
    \/ ProcessEnds

\* no process runs; the registries hold what they hold
ConfigStart ==
    /\ cpc = "idle"
    /\ ccmd = "none"
    /\ options = NoOptions
    /\ cljsbuild = NullConfig
    /\ current = <<>>
    /\ packageNames = <<>>
    /\ lookup = <<>>
    /\ fetched = NotFetched
    /\ report = <<>>
    /\ got = NotGot
    /\ exitStatus = NotExited
    /\ prePackageJson = NoPackageJson
    /\ cobs = NoCobs

\* a project directory before any command has run, idle registries
ConfigQuiet ==
    /\ packageJson = NoPackageJson
    /\ registry = [n \in BatchPackages |-> [maven |-> <<>>, clojars |-> <<>>]]
    /\ ConfigStart

\* nothing fingerprinted yet
HashStart ==
    /\ depsA = <<>>
    /\ depsB = <<>>
    /\ hashA = NotHashed
    /\ hashB = NotHashed
    /\ hpc = "build"

\* a project directory without cache files or pom.xml
FilesStart ==
    /\ hashFile = NoHashFile
    /\ valueFile = NoValueFile
    /\ pomFile = NoPomFile

\* no run in progress
RunsStart ==
    /\ pc = [p \in Procs |-> "idle"]
    /\ cmd = [p \in Procs |-> "none"]
    /\ config = [p \in Procs |-> NoConfig]
    /\ lastDependencyHash = [p \in Procs |-> <<>>]
    /\ currentDependencyHash = [p \in Procs |-> <<>>]
    /\ cachedClasspath = [p \in Procs |-> ""]
    /\ result = [p \in Procs |-> ""]
    /\ threw = [p \in Procs |-> FALSE]
    /\ unlinkPending = [p \in Procs |-> FALSE]
    /\ pre = [p \in Procs |-> NoPre]
    /\ obs = [p \in Procs |-> NoObs]
    /\ overlapped = FALSE

Init ==
    /\ runtime \in Runtimes
    /\ manifest \in Manifests
    /\ HashStart
    /\ FilesStart
    /\ RunsStart
    /\ ResolveStart
    /\ ConfigQuiet

Spec == Init /\ [][Next]_vars

ConcurrentInit ==
    /\ runtime \in {"node6", "node10"}
    /\ manifest \in ConcurrentManifests
    /\ HashStart
    /\ \/ FilesStart
       \/ \E m \in ConcurrentManifests : \E cp \in Classpaths(m.dependencies) :
              /\ m.hasDeps
              /\ hashFile = [exists |-> TRUE,
                             content |-> HashDependencies(m.dependencies, runtime)]
              /\ valueFile = [exists |-> TRUE, text |-> cp, from |-> m.dependencies]
              /\ pomFile = NoPomFile
    /\ RunsStart
    /\ ResolveStart
    /\ ConfigQuiet

SpecConcurrent == ConcurrentInit /\ [][ConcurrentNext]_vars

(***************************************************************************)
(* The classpath cache: claims.                                            *)
(***************************************************************************)

\* no getClasspath or installDependencies call is under way
BetweenCalls == \A p \in Procs : pc[p] \in {"idle", "returned", "crashed", "exited"}

\* run p has come to the end of a getClasspath call that got as far as its
\* dependency set
GC_Ended(p) == cmd[p] = "getClasspath" /\ pc[p] \in {"returned", "crashed"}

\* the fingerprint of the dependency set run p works with
Fingerprint(p) == HashDependencies(config[p].dependencies, runtime)

\* C1: between calls, a fingerprint file that is present stands beside a
\* value file resolved from a dependency set with that fingerprint, and every
\* call has written both files or neither.
C1_CachePairConsistent ==
    BetweenCalls =>
        /\ hashFile.exists =>
               /\ valueFile.exists
               /\ hashFile.content = HashDependencies(valueFile.from, runtime)
        /\ \A p \in Procs : obs[p].wroteHash = obs[p].wroteValue

\* C1 witness: a call has replaced an earlier fingerprint and its value
C1_Witness ==
    \E p \in Procs :
        /\ pc[p] = "returned"
        /\ obs[p].wroteHash /\ obs[p].wroteValue
        /\ pre[p].hash.exists
        /\ pre[p].hash.content # hashFile.content

C3_StaleRecomputes ==
    \A p \in Procs :
        (GC_Ended(p) /\ ReadFile(pre[p].hash) # Fingerprint(p))
        => /\ obs[p].invoked = 1
           /\ pc[p] = "returned" =>
                  hashFile = [exists |-> TRUE, content |-> Fingerprint(p)]

\* C3 witness: a stale fingerprint with a value beside it, recomputed
C3_Witness ==
    \E p \in Procs :
        /\ GC_Ended(p) /\ pc[p] = "returned"
        /\ pre[p].hash.exists /\ pre[p].hash.content # Fingerprint(p)
        /\ pre[p].value.exists /\ pre[p].value.text # ""
        /\ obs[p].invoked = 1

\* C4: a call that finds no fingerprint or no value invokes the tool exactly
\* once; when it returns, it returns the value the tool wrote for its
\* dependency set, and the persisted fingerprint is that of this set.
C4_MissRecomputesOnce ==
    \A p \in Procs :
        (GC_Ended(p) /\ (~pre[p].hash.exists \/ ReadTextFile(pre[p].value) = ""))
        => /\ obs[p].invoked = 1
           /\ pc[p] = "returned" =>
                  /\ obs[p].wroteValue
                  /\ valueFile.exists
                  /\ valueFile.from = config[p].dependencies
                  /\ result[p] = valueFile.text
                  /\ hashFile = [exists |-> TRUE, content |-> Fingerprint(p)]

\* C4 witness: the first call in a fresh project directory has returned
C4_Witness ==
    \E p \in Procs :
        /\ GC_Ended(p) /\ pc[p] = "returned"
        /\ ~pre[p].hash.exists /\ ~pre[p].value.exists
        /\ obs[p].invoked = 1
        /\ result[p] # ""

\* C5: when the tool fails in getClasspath the call does not return, both
\* cache files are as the call found them, and no call writes a cache file
\* unless its tool invocation succeeded.
C5_ToolFailureLeavesCache ==
    \A p \in Procs :
        /\ (cmd[p] = "getClasspath" /\ obs[p].toolFailed)
           => /\ pc[p] \in {"finally", "crashed"}
              /\ hashFile = pre[p].hash
              /\ valueFile = pre[p].value
        /\ (obs[p].wroteHash \/ obs[p].wroteValue)
           => (obs[p].invoked = 1 /\ ~obs[p].toolFailed)

\* C5 witness: the tool failed over a cache that held an earlier result
C5_Witness ==
    \E p \in Procs :
        /\ cmd[p] = "getClasspath" /\ pc[p] = "crashed" /\ obs[p].toolFailed
        /\ pre[p].hash.exists /\ pre[p].value.exists
        /\ hashFile = pre[p].hash /\ valueFile = pre[p].value

\* C6: once getClasspath or installDependencies has returned or failed, a
\* pom.xml it generated no longer exists.
C6_PomRemoved ==
    \A p \in Procs :
        (pc[p] \in {"returned", "crashed"} /\ obs[p].pomCreated) => ~pomFile.exists

HashInit ==
    /\ runtime \in Runtimes
    /\ manifest = [exists |-> FALSE, hasDeps |-> FALSE, dependencies |-> <<>>]
    /\ HashStart
    /\ FilesStart
    /\ RunsStart
    /\ ResolveStart
    /\ ConfigQuiet

SpecHash == HashInit /\ [][HashNext]_vars

ResolveInit ==
    /\ runtime = "node6"
    /\ manifest = [exists |-> FALSE, hasDeps |-> FALSE, dependencies |-> <<>>]
    /\ HashStart
    /\ FilesStart
    /\ RunsStart
    /\ ResolveStart
    /\ ConfigQuiet

SpecResolve == ResolveInit /\ [][ResolveNext]_vars

ConfigInit ==
    /\ runtime = "node6"
    /\ manifest = [exists |-> FALSE, hasDeps |-> FALSE, dependencies |-> <<>>]
    /\ HashStart
    /\ FilesStart
    /\ RunsStart
    /\ ResolveStart
    /\ packageJson \in PackageJsons
    /\ registry \in Registries
    /\ ConfigStart

SpecConfig == ConfigInit /\ [][ConfigNext]_vars

\* C7: dependency objects holding the same key/version pairs, whatever the
\* insertion order, have the same fingerprint.
C7_OrderIndependent ==
    (hpc = "hashed" /\ PairsOf(depsA) = PairsOf(depsB)) => hashA = hashB

\* C8: distinct dependency sets never serialize to the same string, so with
\* an injective digest their fingerprints differ.
C8_DistinctSetsDistinctHash ==
    (hpc = "hashed" /\ PairsOf(depsA) # PairsOf(depsB)) => hashA # hashB

(***************************************************************************)
(* The registry lookup: claims.                                            *)
(***************************************************************************)
Least(S) == CHOOSE i \in S : \A j \in S : i <= j

\* the places of the candidates in clojars.org's answer that pass the
\* release filter
ReleaseCandidates ==
    {i \in 1..Len(clojarsAnswer.list) :
        freleasesOnly => MatchesReleaseRegex(clojarsAnswer.list[i].version)}

\* ... and that are the artifact that was asked for
CoordinateCandidates ==
    {i \in ReleaseCandidates :
        /\ clojarsAnswer.list[i].group_name = GroupId(fname)
        /\ clojarsAnswer.list[i].jar_name = ArtifactId(fname)}

\* the first registry's answer holds no version the lookup accepts
PrimaryYieldsNothing ==
    IF freleasesOnly
    THEN \A i \in 1..Len(mavenAnswer.list) : ~MatchesReleaseRegex(mavenAnswer.list[i])
    ELSE mavenAnswer.list = <<>>

\* the lookup resolved to name and version of candidate i of clojars.org
ResolvedToCandidate(i) ==
    /\ fresult.found
    /\ fresult.name = fname
    /\ fresult.version = clojarsAnswer.list[i].version

\* C9: when search.maven.org returns no candidates, the lookup resolves to
\* the first candidate of clojars.org's answer that passes release filtering
\* (its top candidate when releasesOnly is unset).
C9_SecondaryTopCandidate ==
    (fpc = "done" /\ mavenAnswer.answered /\ mavenAnswer.list = <<>>)
    => IF ReleaseCandidates = {}
       THEN ~fresult.found
       ELSE ResolvedToCandidate(Least(ReleaseCandidates))

\* C9 as amended: when search.maven.org returns no candidates, the lookup
\* resolves to the first candidate of clojars.org's answer that names the
\* group and artifact asked for and passes release filtering, and to
\* undefined when there is none.
C9_SecondaryFirstOfCoordinate ==
    (fpc = "done" /\ mavenAnswer.answered /\ mavenAnswer.list = <<>>)
    => /\ clojarsAnswer.answered
       /\ IF CoordinateCandidates = {}
          THEN ~fresult.found
          ELSE ResolvedToCandidate(Least(CoordinateCandidates))

\* C9 witness: clojars.org's top candidate is another artifact and the
\* lookup resolved to the candidate after it
C9_Witness ==
    /\ fpc = "done" /\ mavenAnswer.answered /\ mavenAnswer.list = <<>>
    /\ Len(clojarsAnswer.list) = 2
    /\ CoordinateCandidates = {2}
    /\ ReleaseCandidates = {1, 2}
    /\ fresult.found
    /\ fresult.version # clojarsAnswer.list[1].version

\* C10: search.maven.org is queried first; clojars.org is queried only after
\* search.maven.org has answered without an acceptable version, never when it
\* yielded one; when neither yields a version the lookup resolves to
\* undefined and does not fail.
C10_RegistryOrder ==
    /\ Len(queries) <= 2
    /\ Len(queries) >= 1 => queries[1].registry = "maven"
    /\ Len(queries) = 2 =>
           /\ queries[2].registry = "clojars"
           /\ mavenAnswer.answered
           /\ PrimaryYieldsNothing
    /\ clojarsAnswer.answered => Len(queries) = 2
    /\ (mavenAnswer.answered /\ ~PrimaryYieldsNothing) =>
           /\ Len(queries) = 1
           /\ fpc = "done"
           /\ fresult.found
    /\ (clojarsAnswer.answered /\ CoordinateCandidates = {}) =>
           /\ fpc = "done"
           /\ ~fresult.found

\* C10 witness: both registries had candidates, none acceptable, and the
\* lookup resolved to undefined
C10_Witness ==
    /\ fpc = "done"
    /\ Len(queries) = 2
    /\ mavenAnswer.list # <<>>
    /\ clojarsAnswer.list # <<>>
    /\ ~fresult.found

\* v[from..to] is a non-empty run of digits
AllDigits(v, from, to) == from <= to /\ \A i \in from..to : v[i] \in Digits

\* MAJOR.MINOR.PATCH with an optional -BUILD, all components numeric
IsReleaseForm(v) ==
    \E i, j \in 1..Len(v) :
        /\ i < j
        /\ v[i] = "." /\ v[j] = "."
        /\ AllDigits(v, 1, i - 1)
        /\ AllDigits(v, i + 1, j - 1)
        /\ \/ AllDigits(v, j + 1, Len(v))
           \/ \E k \in (j + 1)..Len(v) :
                  /\ v[k] = "-"
                  /\ AllDigits(v, j + 1, k - 1)
                  /\ AllDigits(v, k + 1, Len(v))

\* the lookup accepts version v
Accepted(v) == freleasesOnly => IsReleaseForm(v)

\* the places of the accepted candidates in the answer of search.maven.org
MavenAccepted == {i \in 1..Len(mavenAnswer.list) : Accepted(mavenAnswer.list[i])}

\* ... in the answer of clojars.org
ClojarsAccepted ==
    {i \in 1..Len(clojarsAnswer.list) : Accepted(clojarsAnswer.list[i].version)}

\* ... and, of these, the candidates for the coordinate that was asked for
ClojarsAcceptedOfCoordinate ==
    {i \in ClojarsAccepted :
        /\ clojarsAnswer.list[i].group_name = GroupId(fname)
        /\ clojarsAnswer.list[i].jar_name = ArtifactId(fname)}

\* the forms the release filter accepts and rejects
ReleaseFormExamples ==
    /\ IsReleaseForm(Ver123)
    /\ IsReleaseForm(Ver123Build4)
    /\ ~IsReleaseForm(Ver123Alpha)
    /\ ~IsReleaseForm(Ver200Rc1)

\* what search.maven.org's answer makes of the lookup: its first accepted
\* candidate, or the fallback to clojars.org
MavenFirstAccepted ==
    mavenAnswer.answered =>
        IF MavenAccepted = {}
        THEN Len(queries) = 2
        ELSE /\ fpc = "done"
             /\ fresult.found
             /\ fresult.version = mavenAnswer.list[Least(MavenAccepted)]

\* C11: with releasesOnly set, the version a registry query returns is the
\* first candidate of its answer whose version has the release form (1.2.3
\* and 1.2.3-4 have it, 1.2.3-alpha and 2.0.0-rc1 have not); with
\* releasesOnly unset it is the first candidate of the answer.
C11_FirstAcceptedCandidate ==
    /\ ReleaseFormExamples
    /\ MavenFirstAccepted
    /\ clojarsAnswer.answered =>
           IF ClojarsAccepted = {}
           THEN ~fresult.found
           ELSE /\ fresult.found
                /\ fresult.version = clojarsAnswer.list[Least(ClojarsAccepted)].version

\* C11 as amended: as C11, where the candidates of clojars.org's answer are
\* those that name the group and artifact asked for.
C11_FirstAcceptedOfCoordinate ==
    /\ ReleaseFormExamples
    /\ MavenFirstAccepted
    /\ clojarsAnswer.answered =>
           IF ClojarsAcceptedOfCoordinate = {}
           THEN ~fresult.found
           ELSE /\ fresult.found
                /\ fresult.version =
                       clojarsAnswer.list[Least(ClojarsAcceptedOfCoordinate)].version

\* C11 witness: with releasesOnly set, a pre-release was passed over for the
\* build release behind it
C11_Witness ==
    /\ fpc = "done"
    /\ freleasesOnly
    /\ mavenAnswer.list = <<Ver123Alpha, Ver123Build4>>
    /\ fresult.found
    /\ fresult.version = Ver123Build4

(***************************************************************************)
(* The batch of lookups and the commands: claims.                          *)
(***************************************************************************)

\* the promise of _findPackageVersions has resolved
BatchResolved == cpc \in {"then", "done"} /\ fetched.resolved

\* C12: the set _findPackageVersions resolves to holds exactly the packages
\* of the batch whose lookup produced a version, each with that version; a
\* lookup without a version leaves the others in and the batch has not
\* failed.
C12_PartialBatch ==
    BatchResolved =>
        /\ \A i \in 1..Len(packageNames) :
               IF lookup[i].result.found
               THEN /\ HasKey(fetched.dependencies, packageNames[i])
                    /\ VersionOf(fetched.dependencies, packageNames[i]) =
                           lookup[i].result.version
               ELSE ~HasKey(fetched.dependencies, packageNames[i])
        /\ \A j \in 1..Len(fetched.dependencies) :
               \E i \in 1..Len(packageNames) : packageNames[i] = fetched.dependencies[j][1]
        /\ exitStatus = NotExited

\* C12 witness: of two packages the first has no match in either registry
\* and the set holds the second alone
C12_Witness ==
    /\ BatchResolved
    /\ Len(packageNames) = 2
    /\ ~lookup[1].result.found
    /\ registry[packageNames[1]] = [maven |-> <<>>, clojars |-> <<>>]
    /\ lookup[2].result.found
    /\ Keys(fetched.dependencies) = <<packageNames[2]>>

\* what a lookup of the package yields when it runs alone: the answer of
\* search.maven.org, and that of clojars.org when the first holds no version
VersionAlone(name) ==
    LET version == FindLatestMavenRelease(registry[name].maven, options.releasesOnly)
    IN  IF version # NoVersion THEN version
        ELSE FindLatestClojarsRelease(registry[name].clojars, GroupId(name),
                                      ArtifactId(name), options.releasesOnly)

\* the set the batch yields when its lookups run one after the other
BatchAlone ==
    LET Found(name) == VersionAlone(name) # NoVersion
        names == SelectSeq(packageNames, Found)
    IN  [i \in 1..Len(names) |-> <<names[i], VersionAlone(names[i])>>]

\* C13: whatever the order in which the lookups of a batch proceed and
\* settle, the set _findPackageVersions resolves to is the one the batch and
\* the registries' answers determine.
C13_OrderIndependent == BatchResolved => fetched.dependencies = BatchAlone

\* C13 witness: the second lookup of the batch settled before the first
C13_Witness ==
    /\ BatchResolved
    /\ Len(cobs.settled) >= 2
    /\ cobs.settled[1] = 2
    /\ Len(fetched.dependencies) = 2

\* C14: once a registry query of a batch has failed in transport the process
\* has ended with exit code 1, the batch has resolved to no dependency set
\* and package.json is as the command found it.
C14_TransportFailureFatal ==
    cobs.transportFailed =>
        /\ cpc = "exited"
        /\ exitStatus.code = 1
        /\ ~fetched.resolved
        /\ cobs.writes = 0
        /\ packageJson = prePackageJson

\* C14 witness: update, not a dry run; one lookup had found a version when
\* another failed in transport
C14_Witness ==
    /\ cobs.transportFailed
    /\ ccmd = "update"
    /\ ~options.dryRun
    /\ \E i, j \in 1..Len(lookup) :
           /\ lookup[i].pc = "failed"
           /\ lookup[j].pc = "done"
           /\ lookup[j].result.found
           /\ lookup[j].result.version # VersionOf(current, lookup[j].name)
    /\ cpc = "exited"

\* the keys of the section that the value a command writes names
WrittenKeys == IF ccmd = "update" THEN {"dependencies"} ELSE {"main", "dependencies"}

\* C15: after a command has written package.json, every entry the written
\* value does not name has the value it had before.
C15_MergeWrite ==
    (cpc = "done" /\ cobs.writes > 0) =>
        /\ packageJson.name = prePackageJson.name
        /\ \A k \in ConfigKeys \ WrittenKeys :
               packageJson.section[k] = prePackageJson.section[k]

\* the value of key k in the section of package.json as it is now
Supplied(k) ==
    IF packageJson.exists /\ packageJson.hasSection
    THEN packageJson.section[k]
    ELSE UndefinedValue

\* C16: a loaded configuration is the defaults overlaid with the section of
\* package.json as it is now, also after a write; and package.json is loaded
\* into the configuration once, and once more after each write.
C16_ConfigReflectsManifest ==
    /\ cljsbuild.loaded =>
           /\ packageJson.exists
           /\ \A k \in ConfigKeys :
                  cljsbuild.values[k] =
                      IF Supplied(k) # UndefinedValue THEN Supplied(k) ELSE GetDefaults[k]
    /\ cobs.loads <= 1 + cobs.writes
    /\ (cpc \in {"run", "done"} /\ got.key # "") => cljsbuild.loaded

\* C16 witness: after update has written new versions, getConfig returned
\* the written dependencies
C16_Witness ==
    /\ cpc = "done"
    /\ ccmd = "update"
    /\ cobs.writes = 1
    /\ packageJson # prePackageJson
    /\ got.key = "dependencies"
    /\ got.returned
    /\ got.value = packageJson.section["dependencies"]
    /\ got.value # prePackageJson.section["dependencies"]

\* the places in current of the packages whose fetched version is present
\* and another string than the current one
UpdatedIndexes ==
    {i \in 1..Len(current) :
        /\ HasKey(fetched.dependencies, current[i][1])
        /\ VersionOf(fetched.dependencies, current[i][1]) # current[i][2]}

\* the dependencies package.json holds
Persisted == packageJson.section["dependencies"].deps

\* C17: update reports exactly the packages whose fetched version is present
\* and differs from the current one, each as name, current, fetched; unless
\* it is a dry run the dependencies it writes hold the same packages in the
\* same order, the reported ones with the fetched version and the others
\* with the current one.
C17_UpdateReport ==
    (ccmd = "update" /\ cpc = "done") =>
        /\ Len(report) = Cardinality(UpdatedIndexes)
        /\ \A i \in UpdatedIndexes :
               report[Cardinality({j \in UpdatedIndexes : j <= i})] =
                   <<current[i][1], current[i][2],
                     VersionOf(fetched.dependencies, current[i][1])>>
        /\ (~options.dryRun /\ UpdatedIndexes # {}) =>
               /\ cobs.writes = 1
               /\ Len(Persisted) = Len(current)
               /\ \A i \in 1..Len(current) :
                      /\ Persisted[i][1] = current[i][1]
                      /\ Persisted[i][2] =
                             IF i \in UpdatedIndexes
                             THEN VersionOf(fetched.dependencies, current[i][1])
                             ELSE current[i][2]

\* C17 witness: of two packages one was fetched with the version it has and
\* the other with a new one, which was written
C17_Witness ==
    /\ ccmd = "update"
    /\ cpc = "done"
    /\ ~options.dryRun
    /\ Len(current) = 2
    /\ Len(fetched.dependencies) = 2
    /\ Cardinality(UpdatedIndexes) = 1
    /\ Len(report) = 1
    /\ Persisted # current

\* C18: a dry run of init or update never writes package.json, and neither
\* does an update that finds no package with a new version.
C18_DryRunLeavesManifest ==
    /\ (ccmd \in {"init", "update"} /\ options.dryRun) =>
           /\ cobs.writes = 0
           /\ packageJson = prePackageJson
    /\ (ccmd = "update" /\ cpc = "done" /\ UpdatedIndexes = {}) =>
           /\ cobs.writes = 0
           /\ packageJson = prePackageJson

\* C18 witness: a dry run of update has reported new versions
C18_Witness ==
    /\ ccmd = "update"
    /\ cpc = "done"
    /\ options.dryRun
    /\ report # <<>>
    /\ packageJson = prePackageJson

\* C19: getConfig(key) returns the value of package.json where it has one,
\* else the default, and ends the process with "undefined package.json
\* value" exactly when there is neither; main and dependencies are the keys
\* without a default.
C19_GetConfig ==
    /\ {k \in ConfigKeys : GetDefaults[k] = UndefinedValue} = {"main", "dependencies"}
    /\ (got.key # "" /\ cobs.writes = 0 /\ packageJson.exists) =>
           IF Supplied(got.key) # UndefinedValue
           THEN got.returned /\ got.value = Supplied(got.key)
           ELSE IF GetDefaults[got.key] # UndefinedValue
           THEN got.returned /\ got.value = GetDefaults[got.key]
           ELSE ~got.returned /\ cpc = "exited" /\ exitStatus = ConfigKeyUndefined
    /\ exitStatus = ConfigKeyUndefined =>
           /\ Supplied(got.key) = UndefinedValue
           /\ GetDefaults[got.key] = UndefinedValue

\* C19 witness: package.json names src, which has a default, and getConfig
\* returned the value of package.json
C19_Witness ==
    /\ got.key = "src"
    /\ got.returned
    /\ got.value = StringValue("srcs")
    /\ GetDefaults["src"] = StringValue("src")

\* C20: a run that ends with a validation error (package.json missing, or
\* no dependencies defined) has sent no registry query, has not invoked the
\* tool and has neither read nor written a cache file or the pom.xml.
C20_ValidationFirst ==
    \A p \in Procs :
        pc[p] = "exited" =>
            /\ ~obs[p].readHash
            /\ obs[p].invoked = 0
            /\ ~obs[p].pomCreated
            /\ ~obs[p].wroteHash
            /\ ~obs[p].wroteValue
            /\ queries = <<>>

(***************************************************************************)
(* Runs that are not serialized: claims.                                   *)
(***************************************************************************)

\* between calls the persisted fingerprint stands beside no value, or beside
\* a value resolved from a dependency set with another fingerprint
InconsistentPair ==
    /\ BetweenCalls
    /\ hashFile.exists
    /\ ~(/\ valueFile.exists
         /\ hashFile.content = HashDependencies(valueFile.from, runtime))

\* run q is about to invoke the tool, or has invoked it, on a pom.xml that
\* was removed after q wrote it
DescriptorRemoved(q) ==
    \/ pc[q] = "sh" /\ ~pomFile.exists
    \/ obs[q].descriptorMissing

\* C21: the persisted fingerprint comes to stand beside a value of another
\* dependency set, or a run loses the pom.xml its tool invocation needs, only
\* after a run has started while another was under way; serialized runs reach
\* neither state, runs that overlap reach both.
C21_UnsafeOnlyWhenOverlapped ==
    (InconsistentPair \/ \E q \in Procs : DescriptorRemoved(q)) => overlapped

\* C21 witness: of two overlapping getClasspath runs one has returned after
\* writing its fingerprint, the other died of a tool invocation that found no
\* pom.xml, and the fingerprint left behind does not belong to the value
C21_Witness ==
    \E p, q \in Procs :
        /\ p # q
        /\ cmd[p] = "getClasspath" /\ pc[p] = "returned" /\ obs[p].wroteHash
        /\ cmd[q] = "getClasspath" /\ pc[q] = "crashed" /\ obs[q].descriptorMissing
        /\ InconsistentPair
        /\ valueFile.exists
        /\ overlapped

(***************************************************************************)
(* A call after a successful recomputation.                                *)
(***************************************************************************)

\* Run p found the cache as a successful recomputation for its own
\* dependency set leaves it: the fingerprint of the set, and beside it a
\* value the tool resolved from that set.
AfterRecompute(p) ==
    /\ pre[p].hash.exists
    /\ pre[p].hash.content = Fingerprint(p)
    /\ pre[p].value.exists
    /\ pre[p].value.from = config[p].dependencies

\* C22: a getClasspath call that follows a successful recomputation for the
\* same dependency set returns the recomputed value, whatever that value is,
\* and does not invoke the tool.
C22_RecomputeThenHit ==
    \A p \in Procs :
        (GC_Ended(p) /\ AfterRecompute(p))
        => /\ pc[p] = "returned"
           /\ obs[p].invoked = 0
           /\ result[p] = pre[p].value.text

(***************************************************************************)
(* init over declared dependencies.                                        *)
(***************************************************************************)

\* package.json as the command found it declares a dependency set
DeclaresDependencies(doc) ==
    /\ doc.exists
    /\ doc.hasSection
    /\ doc.section["dependencies"] # UndefinedValue

\* C23: init in a project whose package.json declares a dependency set ends
\* the process with exit code 1 and the message that the dependencies exist,
\* having sent no registry query and written nothing: package.json is as the
\* command found it.
C23_InitKeepsDependencies ==
    (ccmd = "init" /\ DeclaresDependencies(prePackageJson))
    => /\ cpc = "exited"
       /\ exitStatus = DependenciesExist
       /\ exitStatus.code = 1
       /\ cobs.queries = 0
       /\ cobs.writes = 0
       /\ lookup = <<>>
       /\ packageJson = prePackageJson

\* C23 witness: init, asked to write, has stopped over two declared
\* dependencies
C23_Witness ==
    /\ ccmd = "init"
    /\ ~options.dryRun
    /\ DeclaresDependencies(prePackageJson)
    /\ Len(prePackageJson.section["dependencies"].deps) = 2
    /\ cpc = "exited"
    /\ exitStatus = DependenciesExist
    /\ packageJson = prePackageJson

=============================================================================
